---- MODULE Spec2Model ----
(***************************************************************************)
(* Model of src/server.py: six IMAP tools (view_email, delete_email,       *)
(* move_email, list_mailboxes, check_unseen, search_emails).  Each tool    *)
(* opens its own imaplib connection, runs one transaction and logs out.    *)
(* One action per library call of a tool; every call can succeed, be       *)
(* answered NO by the server, or raise.  The mail store follows RFC 3501:  *)
(* message ids are sequence numbers, EXPUNGE removes the messages that     *)
(* carry the \Deleted system flag, FETCH RFC822 sets \Seen.                *)
(***************************************************************************)
EXTENDS Integers, Sequences, FiniteSets, TLC

\* ---------------------------------------------------------------- bounds
MaxMsgs == 2
MaxCalls == 2
MaxOthers == 1
\* the largest number of direct subparts of a message handed to extract_body
MaxParts == 3

\* ------------------------------------------------------------- universe
Procs == {1, 2}
Mailboxes == {"INBOX", "Archive"}
\* the mailbox arguments the callers pass: the source of view, delete and
\* search, and the target of move
SourceArgs == {"INBOX", "Missing"}
TargetArgs == {"Archive", "Missing"}
MailboxArgs == SourceArgs \cup TargetArgs
\* the ids the callers name: the first position and the last one a mailbox can have
Ids == {1, MaxMsgs}
BadId == 0
ToolNames == {"view_email", "delete_email", "move_email", "list_mailboxes", "check_unseen", "search_emails"}
Criteria == {"ALL", "UNSEEN"}

SeenFlag == "\\Seen"
DeletedFlag == "\\Deleted"
\* the flag list the tools pass to STORE: the keyword DELETED
StoredFlag == "DELETED"
Sentinel == <<"No matching emails found.">>

Unbound == 0
NoExc == [type |-> "none", at |-> "none"]
NoResult == [kind |-> "none", value |-> <<>>]
NoCall == [name |-> "none", email_id |-> 0, mailbox |-> "none", kind |-> "none"]
\* what is remembered of the moment a tool was called: the call that completed
\* just before it, the message its email_id designated, the unseen messages of INBOX
NoAux == [interfered |-> FALSE, pred |-> NoCall, designated |-> 0, unseen0 |-> 0]
\* extract_body called on its own: the number of calls made, the argument and
\* the values the first and the second call returned
NoBody == [ok |-> FALSE, body |-> "", type |-> "none"]
NoExtract == [calls |-> 0, m |-> [ctype |-> "none", multipart |-> FALSE, payload |-> [k |-> "bad", s |-> ""], parts |-> <<>>], out |-> NoBody, again |-> NoBody]
IdleFrame == [pc |-> "idle", name |-> "none", email_id |-> 0, mailbox |-> "none", criterion |-> "none", mail |-> Unbound, e |-> NoExc, status |-> "none", email_ids |-> <<>>, result_subjects |-> <<>>, result |-> NoResult]

VARIABLES mbox, conns, fr, trace, prev, calls, aux, maxActive, others, ex

vars == <<mbox, conns, fr, trace, prev, calls, aux, maxActive, others, ex>>

\* ------------------------------------------------------------- helpers
\* imaplib.Commands: the connection states in which a command is legal
Commands(cmd) ==
    CASE cmd = "LOGIN" -> {"NONAUTH"}
      [] cmd = "SELECT" -> {"AUTH", "SELECTED"}
      [] cmd = "LIST" -> {"AUTH", "SELECTED"}
      [] cmd = "LOGOUT" -> {"NONAUTH", "AUTH", "SELECTED", "LOGOUT"}
      [] OTHER -> {"SELECTED"}

Exc(type, at) == [type |-> type, at |-> at]

\* the mailbox a connection has selected
Sel(p) == conns[fr[p].mail].selected

Exists(mb, id) == mb \in Mailboxes /\ id \in 1 .. Len(mbox[mb])

\* the message_parts argument of the fetch calls of the tools (lines 57, 171, 213)
FetchParts(name) == "(RFC822)"

\* the argument of a command that the log keeps: what a FETCH asks for
ArgOf(p, cmd) == IF cmd = "FETCH" THEN FetchParts(fr[p].name) ELSE ""

Logged(p, cmd, st) == Append(trace[p], [cmd |-> cmd, conn |-> fr[p].mail, st |-> st, arg |-> ArgOf(p, cmd)])

\* a change of the store made by p (0: another session) is seen by the others
Touched(p) == [q \in Procs |-> IF q # p /\ fr[q].pc # "idle" THEN [aux[q] EXCEPT !.interfered = TRUE] ELSE aux[q]]

\* control transfer to the except clause of the tool with exception x bound to e
Raise(p, x) == [fr EXCEPT ![p].pc = "except", ![p].e = x]

\* view_email going from login straight to its fetch
AfterLoginNoSelect(name) == IF name = "list_mailboxes" THEN "list" ELSE IF name = "view_email" THEN "fetch" ELSE "select"

AfterLogin(name) == IF name = "list_mailboxes" THEN "list" ELSE "select"

AfterSelect(name) ==
    CASE name = "view_email" -> "fetch"
      [] name = "delete_email" -> "store"
      [] name = "move_email" -> "copy"
      [] OTHER -> "search"

\* ----------------------------------------------------------------- Init
\* INBOX holds n messages, all of them unread or all of them read; Archive is empty
InitMbox(n, seen) == [mb \in Mailboxes |-> IF mb = "INBOX" THEN [i \in 1 .. n |-> [raw |-> i, flags |-> IF i \in seen THEN {SeenFlag} ELSE {}]] ELSE <<>>]

InitCommon(sizes) ==
    /\ \E n \in sizes : \E seen \in {{}, 1 .. n} : mbox = InitMbox(n, seen)
    /\ conns = <<>>
    /\ fr = [p \in Procs |-> IdleFrame]
    /\ trace = [p \in Procs |-> <<>>]
    /\ prev = NoCall
    /\ aux = [p \in Procs |-> NoAux]

\* the tools are called one after the other, while other sessions flag messages
Init == InitCommon(0 .. MaxMsgs) /\ calls = 0 /\ maxActive = 1 /\ others = MaxOthers /\ ex = NoExtract

\* the tools are called concurrently: every caller makes one call, on an INBOX of one message
InitConc == InitCommon({1}) /\ calls = MaxCalls - Cardinality(Procs) /\ maxActive = Cardinality(Procs) /\ others = 1 /\ ex = NoExtract

\* -------------------------------------------------------------- actions
\* the dispatch layer calls a tool with its arguments
Invoke(p) ==
    /\ fr[p].pc = "idle"
    /\ calls < MaxCalls
    /\ Cardinality({q \in Procs : fr[q].pc # "idle"}) < maxActive
    /\ \A q \in Procs : q < p => fr[q].pc # "idle"
    /\ \E name \in ToolNames, id \in Ids, mb \in MailboxArgs, crit \in Criteria :
          /\ name \in {"list_mailboxes", "check_unseen"} => id = 1 /\ mb = "INBOX"
          /\ name = "search_emails" => id = 1
          /\ maxActive > 1 => id = 1     \* concurrent callers address the one message of the INBOX
          /\ name # "search_emails" => crit = "ALL"
          /\ mb \in (IF name = "move_email" THEN TargetArgs ELSE SourceArgs)
          /\ fr' = [fr EXCEPT ![p] = [IdleFrame EXCEPT !.pc = "connect", !.name = name, !.email_id = id, !.mailbox = mb, !.criterion = crit]]
          /\ LET src == IF name = "move_email" THEN "INBOX" ELSE mb IN
             aux' = [aux EXCEPT ![p] = [interfered |-> FALSE, pred |-> prev,
                                        designated |-> IF Exists(src, id) THEN mbox[src][id].raw ELSE 0,
                                        unseen0 |-> Cardinality({i \in 1 .. Len(mbox["INBOX"]) : SeenFlag \notin mbox["INBOX"][i].flags})]]
    /\ calls' = calls + 1
    /\ trace' = [trace EXCEPT ![p] = <<>>]
    /\ UNCHANGED <<mbox, conns, prev, maxActive, others, ex>>

\* the connection object a successful IMAP4_SSL() call creates
\* one connection object kept at module level and handed to every invocation
SharedConn == CHOOSE c \in 1 .. Cardinality(Procs) : \A d \in 1 .. Cardinality(Procs) : c <= d

FreshConn == CHOOSE c \in 1 .. Cardinality(Procs) : c \notin DOMAIN conns

\* mail = imaplib.IMAP4_SSL(SERVER)
Connect(p) ==
    /\ fr[p].pc = "connect"
    /\ \/ /\ conns' = (FreshConn :> [state |-> "NONAUTH", open |-> TRUE, logouts |-> 0, selected |-> "none"]) @@ conns
          /\ fr' = [fr EXCEPT ![p].pc = "login", ![p].mail = FreshConn]
          /\ trace' = [trace EXCEPT ![p] = Append(@, [cmd |-> "CONNECT", conn |-> FreshConn, st |-> "OK", arg |-> ""])]
       \/ /\ fr' = Raise(p, Exc("OSError", "connect"))
          /\ trace' = [trace EXCEPT ![p] = Append(@, [cmd |-> "CONNECT", conn |-> Unbound, st |-> "raise", arg |-> ""])]
          /\ UNCHANGED conns
    /\ UNCHANGED <<mbox, prev, calls, aux, maxActive, others, ex>>

\* mail.login(USER, PASSWORD)
Login(p) ==
    /\ fr[p].pc = "login"
    /\ \/ /\ conns' = [conns EXCEPT ![fr[p].mail].state = "AUTH"]
          /\ fr' = [fr EXCEPT ![p].pc = AfterLogin(fr[p].name)]
          /\ trace' = [trace EXCEPT ![p] = Logged(p, "LOGIN", "OK")]
       \/ /\ fr' = Raise(p, Exc("IMAP4.error", "login"))
          /\ trace' = [trace EXCEPT ![p] = Logged(p, "LOGIN", "raise")]
          /\ UNCHANGED conns
    /\ UNCHANGED <<mbox, prev, calls, aux, maxActive, others, ex>>

\* mail.select(mailbox): a NO answer is returned, not raised, and the tools ignore it
Select(p) ==
    /\ fr[p].pc = "select"
    /\ LET mb == IF fr[p].name \in {"move_email", "check_unseen"} THEN "INBOX" ELSE fr[p].mailbox IN
       \/ /\ mb \in Mailboxes
          /\ conns' = [conns EXCEPT ![fr[p].mail].state = "SELECTED", ![fr[p].mail].selected = mb]
          /\ fr' = [fr EXCEPT ![p].pc = AfterSelect(fr[p].name)]
          /\ trace' = [trace EXCEPT ![p] = Logged(p, "SELECT", "OK")]
       \/ /\ mb \notin Mailboxes
          /\ conns' = [conns EXCEPT ![fr[p].mail].state = "AUTH"]
          /\ fr' = [fr EXCEPT ![p].pc = AfterSelect(fr[p].name)]
          /\ trace' = [trace EXCEPT ![p] = Logged(p, "SELECT", "NO")]
       \/ /\ fr' = Raise(p, Exc("IMAP4.abort", "select"))
          /\ trace' = [trace EXCEPT ![p] = Logged(p, "SELECT", "raise")]
          /\ UNCHANGED conns
    /\ UNCHANGED <<mbox, prev, calls, aux, maxActive, others, ex>>

\* ------------------------------------------------- messages and parsing
TextPart(ctype, s) == [ctype |-> ctype, multipart |-> FALSE, payload |-> [k |-> "text", s |-> s], parts |-> <<>>]

BadPart(ctype) == [ctype |-> ctype, multipart |-> FALSE, payload |-> [k |-> "bad", s |-> ""], parts |-> <<>>]

Container(ctype, parts) == [ctype |-> ctype, multipart |-> TRUE, payload |-> [k |-> "none", s |-> ""], parts |-> parts]

\* the raw messages the store can hold, by identity
RawMessage(i) ==
    LET k == ((i - 1) % 3) + 1 IN
    [id |-> i,
     root |-> CASE k = 1 -> TextPart("text/plain", "hello")
                [] k = 2 -> Container("multipart/mixed", <<TextPart("text/plain", ""), BadPart("application/octet-stream"), Container("multipart/alternative", <<TextPart("text/plain", "plain"), TextPart("text/html", "html")>>)>>)
                [] OTHER -> BadPart("text/plain")]

\* email.message.Message.walk(): the part itself, then its subparts, depth first
RECURSIVE Walk(_)
RECURSIVE WalkAll(_)
WalkAll(ps) == IF ps = <<>> THEN <<>> ELSE Walk(Head(ps)) \o WalkAll(Tail(ps))

Walk(m) == <<m>> \o (IF m.multipart THEN WalkAll(m.parts) ELSE <<>>)

\* part.get_payload(decode=True).decode(): None for a container (AttributeError),
\* UnicodeDecodeError for bytes that are not text
Decode(part) ==
    IF part.payload.k = "text" THEN [ok |-> TRUE, text |-> part.payload.s] ELSE [ok |-> FALSE, text |-> ""]

\* the loop without its break: every part is decoded and the last one that decodes wins
RECURSIVE ScanPartsNoBreak(_, _, _, _)
ScanPartsNoBreak(ps, i, body, ctype) ==
    IF i > Len(ps) THEN [ok |-> TRUE, body |-> body, type |-> ctype]
    ELSE LET d == Decode(ps[i]) IN
         ScanPartsNoBreak(ps, i + 1, IF d.ok THEN d.text ELSE body, ps[i].ctype)

\* the for loop of extract_body over the walked parts, from part i on
RECURSIVE ScanParts(_, _, _, _)
ScanParts(ps, i, body, ctype) ==
    IF i > Len(ps) THEN [ok |-> TRUE, body |-> body, type |-> ctype]
    ELSE LET d == Decode(ps[i]) IN
         IF d.ok /\ d.text # "" THEN [ok |-> TRUE, body |-> d.text, type |-> ps[i].ctype]
         ELSE ScanParts(ps, i + 1, IF d.ok THEN d.text ELSE body, ps[i].ctype)

\* extract_body raising when the walk found no text
extract_bodyStrict(m) ==
    IF m.multipart
    THEN LET r == ScanParts(Walk(m), 1, "", "unbound") IN
         IF r.body = "" THEN [ok |-> FALSE, body |-> "", type |-> r.type] ELSE r
    ELSE LET d == Decode(m) IN [ok |-> d.ok, body |-> d.text, type |-> m.ctype]

extract_body(m) ==
    IF m.multipart THEN ScanParts(Walk(m), 1, "", "unbound")
    ELSE LET d == Decode(m) IN [ok |-> d.ok, body |-> d.text, type |-> m.ctype]

\* the messages extract_body is called with on its own: single parts, and
\* multipart/mixed messages of up to MaxParts subparts, nested containers included
Leaves == {TextPart("text/plain", ""), TextPart("text/plain", "plain"), TextPart("text/html", "html"), BadPart("application/octet-stream")}

NestedParts ==
    {Container("multipart/alternative", ps) :
        ps \in {<<>>,
                <<TextPart("text/plain", ""), BadPart("application/pdf")>>,
                <<TextPart("text/plain", "inner"), TextPart("text/html", "innerhtml")>>}}

SeqsUpTo(S, n) == UNION {[1 .. k -> S] : k \in 0 .. n}

Messages == Leaves \cup {Container("multipart/mixed", ps) : ps \in SeqsUpTo(Leaves \cup NestedParts, MaxParts)}

InitBody ==
    /\ InitCommon({0})
    /\ calls = 0
    /\ maxActive = 0
    /\ others = 0
    /\ \E m \in Messages : ex = [NoExtract EXCEPT !.m = m]

\* a first call of extract_body on the message
ExtractBody ==
    /\ ex.calls = 0
    /\ ex' = [ex EXCEPT !.calls = 1, !.out = extract_body(ex.m)]
    /\ UNCHANGED <<mbox, conns, fr, trace, prev, calls, aux, maxActive, others>>

\* a second call on the same message
ExtractAgain ==
    /\ ex.calls = 1
    /\ ex' = [ex EXCEPT !.calls = 2, !.again = extract_body(ex.m)]
    /\ UNCHANGED <<mbox, conns, fr, trace, prev, calls, aux, maxActive, others>>

NextBody == ExtractBody \/ ExtractAgain

SpecBody == InitBody /\ [][NextBody]_vars

\* the {'Subject', 'Date'} entry built for one fetched message
Summary(msg) == [Subject |-> msg.raw, Date |-> msg.raw]

\* mail.search(None, criterion, value) on a selected mailbox: matching sequence numbers, ascending
Matches(crit, msg) == IF crit = "UNSEEN" THEN SeenFlag \notin msg.flags ELSE TRUE

RECURSIVE SearchFrom(_, _, _)
SearchFrom(box, crit, i) ==
    IF i > Len(box) THEN <<>>
    ELSE (IF Matches(crit, box[i]) THEN <<i>> ELSE <<>>) \o SearchFrom(box, crit, i + 1)

SearchIds(box, crit) == SearchFrom(box, crit, 1)

\* one LIST response line, split on '"."' and stripped of blanks
ParseListLine(name, delim) == IF delim = "." THEN [ok |-> TRUE, name |-> "\"" \o name \o "\""] ELSE [ok |-> FALSE, name |-> ""]

ServerMailboxes == <<"INBOX", "Archive">>

\* ------------------------------------------------------ store operations
AddFlag(box, id, flag) == [box EXCEPT ![id].flags = @ \cup {flag}]

\* STORE id +FLAGS (DELETED)
StoreFlags(box, id) == AddFlag(box, id, StoredFlag)

\* an expunge that purges by the keyword the tools store
ExpungeBoxByKeyword(box) == SelectSeq(box, LAMBDA m : StoredFlag \notin m.flags)

\* EXPUNGE: every message carrying \Deleted leaves the mailbox
ExpungeBox(box) == SelectSeq(box, LAMBDA m : DeletedFlag \notin m.flags)

\* FETCH id (RFC822) marks the message seen
FetchBox(box, id) == AddFlag(box, id, SeenFlag)

\* a change of the store by p, seen by the other invocations
Change(p, new) ==
    /\ mbox' = new
    /\ aux' = IF new # mbox THEN Touched(p) ELSE aux

\* a library call that fails before it has any effect: illegal in the
\* connection's state (raised by imaplib itself) or broken on the wire
Fails(p, cmd, at) ==
    /\ \/ /\ conns[fr[p].mail].state \notin Commands(cmd)
          /\ fr' = Raise(p, Exc("IMAP4.error", at))
          /\ trace' = [trace EXCEPT ![p] = Logged(p, cmd, "illegal")]
       \/ /\ conns[fr[p].mail].state \in Commands(cmd)
          /\ fr' = Raise(p, Exc("IMAP4.abort", at))
          /\ trace' = [trace EXCEPT ![p] = Logged(p, cmd, "raise")]
    /\ UNCHANGED <<mbox, conns, prev, aux>>

Legal(p, cmd) == conns[fr[p].mail].state \in Commands(cmd)

\* the tool leaves its frame with a result for the caller
Complete(p, f, res) ==
    /\ fr' = [fr EXCEPT ![p] = [f EXCEPT !.pc = "done", !.result = res]]
    /\ prev' = IF f.name = "delete_email" /\ res.kind = "return" THEN [name |-> f.name, email_id |-> f.email_id, mailbox |-> f.mailbox, kind |-> res.kind] ELSE NoCall

Return(v) == [kind |-> "return", value |-> v]

Raised(x) == [kind |-> "raise", value |-> x]

\* the last completed call stays "the previous call" until the store changes
PrevAfter(new) == IF new # mbox THEN NoCall ELSE prev

\* ------------------------------------------------- transaction commands
\* mail.store(email_id, "+FLAGS", "(DELETED)"); the returned status is dropped
Store(p) ==
    /\ fr[p].pc = "store"
    /\ \/ Fails(p, "STORE", "store")
       \/ /\ Legal(p, "STORE")
          /\ Exists(Sel(p), fr[p].email_id)
          /\ LET new == [mbox EXCEPT ![Sel(p)] = StoreFlags(@, fr[p].email_id)] IN
             /\ Change(p, new)
             /\ prev' = PrevAfter(new)
          /\ fr' = [fr EXCEPT ![p].pc = "expunge"]
          /\ trace' = [trace EXCEPT ![p] = Logged(p, "STORE", "OK")]
          /\ UNCHANGED conns
       \/ /\ Legal(p, "STORE")
          /\ ~Exists(Sel(p), fr[p].email_id)
          /\ fr' = [fr EXCEPT ![p].pc = "expunge"]
          /\ trace' = [trace EXCEPT ![p] = Logged(p, "STORE", "NO")]
          /\ UNCHANGED <<mbox, conns, prev, aux>>
    /\ UNCHANGED <<calls, maxActive, others, ex>>

\* mail.expunge()
Expunge(p) ==
    /\ fr[p].pc = "expunge"
    /\ \/ Fails(p, "EXPUNGE", "expunge")
       \/ /\ Legal(p, "EXPUNGE")
          /\ LET new == [mbox EXCEPT ![Sel(p)] = ExpungeBox(@)] IN
             /\ Change(p, new)
             /\ prev' = PrevAfter(new)
          /\ fr' = [fr EXCEPT ![p].pc = "logout"]
          /\ trace' = [trace EXCEPT ![p] = Logged(p, "EXPUNGE", "OK")]
          /\ UNCHANGED conns
    /\ UNCHANGED <<calls, maxActive, others, ex>>

\* COPY id target: a new message at the end of the target.  The flags the copy
\* starts with are the server's business (RFC 3501: SHOULD be preserved) and no
\* tool reads them; the copy is kept by its content
CopyInto(box, msg) == Append(box, [raw |-> msg.raw, flags |-> {}])

\* mail.copy(email_id, target_mailbox); the returned status is dropped
Copy(p) ==
    /\ fr[p].pc = "copy"
    /\ \/ Fails(p, "COPY", "copy")
       \/ /\ Legal(p, "COPY")
          /\ Exists(Sel(p), fr[p].email_id)
          /\ fr[p].mailbox \in Mailboxes
          /\ LET new == [mbox EXCEPT ![fr[p].mailbox] = CopyInto(@, mbox[Sel(p)][fr[p].email_id])] IN
             /\ Change(p, new)
             /\ prev' = PrevAfter(new)
          /\ fr' = [fr EXCEPT ![p].pc = "store", ![p].status = "OK"]
          /\ trace' = [trace EXCEPT ![p] = Logged(p, "COPY", "OK")]
          /\ UNCHANGED conns
       \/ /\ Legal(p, "COPY")
          /\ ~(Exists(Sel(p), fr[p].email_id) /\ fr[p].mailbox \in Mailboxes)
          /\ fr' = [fr EXCEPT ![p].pc = "store", ![p].status = "NO"]
          /\ trace' = [trace EXCEPT ![p] = Logged(p, "COPY", "NO")]
          /\ UNCHANGED <<mbox, conns, prev, aux>>
    /\ UNCHANGED <<calls, maxActive, others, ex>>

\* view_email: mail.fetch(email_id, "(RFC822)"), then the parse and the return
\* of lines 58-69; the success branch returns without a logout
Fetch(p) ==
    /\ fr[p].pc = "fetch"
    /\ \/ Fails(p, "FETCH", "fetch")
       \/ /\ Legal(p, "FETCH")
          /\ Exists(Sel(p), fr[p].email_id)
          /\ LET new == [mbox EXCEPT ![Sel(p)] = FetchBox(@, fr[p].email_id)]
                 msg == mbox[Sel(p)][fr[p].email_id]
                 b == extract_body(RawMessage(msg.raw).root)
             IN /\ Change(p, new)
                /\ IF b.ok
                   THEN Complete(p, fr[p], Return([subject |-> msg.raw, from |-> msg.raw, body |-> b.body, type |-> b.type]))
                   ELSE /\ fr' = Raise(p, Exc("UnicodeDecodeError", "parse"))
                        /\ prev' = PrevAfter(new)
          /\ trace' = [trace EXCEPT ![p] = Logged(p, "FETCH", "OK")]
          /\ UNCHANGED conns
       \/ /\ Legal(p, "FETCH")
          /\ ~Exists(Sel(p), fr[p].email_id)
          /\ \/ /\ fr' = Raise(p, Exc("Exception", "not_found"))
                /\ trace' = [trace EXCEPT ![p] = Logged(p, "FETCH", "NO")]
             \/ /\ fr' = Raise(p, Exc("TypeError", "parse"))
                /\ trace' = [trace EXCEPT ![p] = Logged(p, "FETCH", "OK")]
          /\ UNCHANGED <<mbox, conns, prev, aux>>
    /\ UNCHANGED <<calls, maxActive, others, ex>>

\* a check_unseen that searches every message
CriterionOfAll(f) == IF f.name = "check_unseen" THEN "ALL" ELSE f.criterion

\* the criterion a tool searches with: "UNSEEN" in check_unseen, the argument in search_emails
CriterionOf(f) == IF f.name = "check_unseen" THEN "UNSEEN" ELSE f.criterion

\* the result dict of a search without matches
EmptyMapping == [type |-> "dict", items |-> <<>>]

\* a search_emails that answers a rejected search like an empty one
SentinelResultEmpty(f) == Return(EmptyMapping)

\* search_emails, status != "OK": return ["No matching emails found."]
SentinelResult(f) == Return([type |-> "list", items |-> Sentinel])

\* mail.search(None, ...) of check_unseen and search_emails, up to the loop head
Search(p) ==
    /\ fr[p].pc = "search"
    /\ \/ Fails(p, "SEARCH", "search")
       \/ /\ Legal(p, "SEARCH")
          /\ LET ids == SearchIds(mbox[Sel(p)], CriterionOf(fr[p])) IN
             fr' = [fr EXCEPT ![p].pc = IF ids = <<>> THEN "logout" ELSE "loop", ![p].status = "OK", ![p].email_ids = ids]
          /\ trace' = [trace EXCEPT ![p] = Logged(p, "SEARCH", "OK")]
          /\ UNCHANGED <<mbox, conns, prev, aux>>
       \/ /\ Legal(p, "SEARCH")
          /\ trace' = [trace EXCEPT ![p] = Logged(p, "SEARCH", "NO")]
          /\ IF fr[p].name = "search_emails"
             THEN Complete(p, [fr[p] EXCEPT !.status = "NO"], SentinelResult(fr[p]))
             ELSE /\ fr' = [fr EXCEPT ![p].pc = "loop", ![p].status = "NO", ![p].email_ids = <<BadId>>]
                  /\ UNCHANGED prev
          /\ UNCHANGED <<mbox, conns, aux>>
    /\ UNCHANGED <<calls, maxActive, others, ex>>

\* one iteration of "for email_id in email_ids": fetch, and on OK the summary entry;
\* a fetch that is answered NO adds nothing and the loop goes on
FetchLoop(p) ==
    /\ fr[p].pc = "loop"
    /\ LET id == Head(fr[p].email_ids)
           rest == Tail(fr[p].email_ids)
           next == IF rest = <<>> THEN "logout" ELSE "loop"
       IN \/ Fails(p, "FETCH", "fetch")
          \/ /\ Legal(p, "FETCH")
             /\ Exists(Sel(p), id)
             /\ LET new == [mbox EXCEPT ![Sel(p)] = FetchBox(@, id)] IN
                /\ Change(p, new)
                /\ prev' = PrevAfter(new)
             /\ fr' = [fr EXCEPT ![p].pc = next, ![p].email_ids = rest, ![p].result_subjects = (id :> Summary(mbox[Sel(p)][id])) @@ @]
             /\ trace' = [trace EXCEPT ![p] = Logged(p, "FETCH", "OK")]
             /\ UNCHANGED conns
          \/ /\ Legal(p, "FETCH")
             /\ ~Exists(Sel(p), id)
             /\ \/ /\ id # BadId
                   /\ fr' = [fr EXCEPT ![p].pc = next, ![p].email_ids = rest]
                   /\ trace' = [trace EXCEPT ![p] = Logged(p, "FETCH", "NO")]
                \/ /\ id # BadId
                   /\ fr' = Raise(p, Exc("TypeError", "parse"))
                   /\ trace' = [trace EXCEPT ![p] = Logged(p, "FETCH", "OK")]
                \/ /\ id = BadId
                   /\ fr' = Raise(p, Exc("IMAP4.error", "fetch"))
                   /\ trace' = [trace EXCEPT ![p] = Logged(p, "FETCH", "raise")]
             /\ UNCHANGED <<mbox, conns, prev, aux>>
    /\ UNCHANGED <<calls, maxActive, others, ex>>

\* list_mailboxes: mail.list() and the comprehension that parses the lines
List(p) ==
    /\ fr[p].pc = "list"
    /\ \/ Fails(p, "LIST", "list")
       \/ /\ Legal(p, "LIST")
          /\ \E delim \in {".", "/"} :
                LET parsed == [i \in 1 .. Len(ServerMailboxes) |-> ParseListLine(ServerMailboxes[i], delim)] IN
                IF \A i \in 1 .. Len(parsed) : parsed[i].ok
                THEN fr' = [fr EXCEPT ![p].pc = "logout", ![p].result_subjects = [i \in 1 .. Len(parsed) |-> parsed[i].name]]
                ELSE fr' = Raise(p, Exc("IndexError", "parse"))
          /\ trace' = [trace EXCEPT ![p] = Logged(p, "LIST", "OK")]
          /\ UNCHANGED <<mbox, conns, prev, aux>>
    /\ UNCHANGED <<calls, maxActive, others, ex>>

\* what the tool returns after its logout
ReturnValue(f) ==
    CASE f.name = "delete_email" -> [type |-> "dict", items |-> [status |-> "success", email_id |-> f.email_id, mailbox |-> f.mailbox]]
      [] f.name = "move_email" -> [type |-> "dict", items |-> [status |-> "success", email_id |-> f.email_id, target_mailbox |-> f.mailbox]]
      [] f.name = "list_mailboxes" -> [type |-> "list", items |-> f.result_subjects]
      [] OTHER -> [type |-> "dict", items |-> f.result_subjects]

\* imaplib logout(): state = 'LOGOUT', the LOGOUT command, then shutdown();
\* when the command raises, shutdown() is not reached and the socket stays open
LoggedOut(c, ok) == [conns EXCEPT ![c].state = "LOGOUT", ![c].logouts = @ + 1, ![c].open = IF ok THEN FALSE ELSE @, ![c].selected = "none"]

\* mail.logout() on the normal path of a tool, then its return statement
Logout(p) ==
    /\ fr[p].pc = "logout"
    /\ \/ /\ conns' = LoggedOut(fr[p].mail, TRUE)
          /\ Complete(p, fr[p], Return(ReturnValue(fr[p])))
          /\ trace' = [trace EXCEPT ![p] = Logged(p, "LOGOUT", "OK")]
       \/ /\ conns' = LoggedOut(fr[p].mail, FALSE)
          /\ fr' = Raise(p, Exc("IMAP4.abort", "logout"))
          /\ trace' = [trace EXCEPT ![p] = Logged(p, "LOGOUT", "raise")]
          /\ UNCHANGED prev
    /\ UNCHANGED <<mbox, calls, aux, maxActive, others, ex>>

\* except Exception as e: mail.logout(); raise e
Except(p) ==
    /\ fr[p].pc = "except"
    /\ \/ /\ fr[p].mail = Unbound
          /\ Complete(p, fr[p], Raised(Exc("UnboundLocalError", "except")))
          /\ trace' = [trace EXCEPT ![p] = Logged(p, "LOGOUT", "unbound")]
          /\ UNCHANGED conns
       \/ /\ fr[p].mail # Unbound
          /\ conns' = LoggedOut(fr[p].mail, TRUE)
          /\ Complete(p, fr[p], Raised(fr[p].e))
          /\ trace' = [trace EXCEPT ![p] = Logged(p, "LOGOUT", "OK")]
       \/ /\ fr[p].mail # Unbound
          /\ conns' = LoggedOut(fr[p].mail, FALSE)
          /\ Complete(p, fr[p], Raised(Exc("IMAP4.abort", "except")))
          /\ trace' = [trace EXCEPT ![p] = Logged(p, "LOGOUT", "raise")]
    /\ UNCHANGED <<mbox, calls, aux, maxActive, others, ex>>

\* the caller has taken the result; the frame and its connection object are gone
Ack(p) ==
    /\ fr[p].pc = "done"
    /\ conns' = [c \in DOMAIN conns \ {fr[p].mail} |-> conns[c]]
    /\ fr' = [fr EXCEPT ![p] = IdleFrame]
    /\ trace' = [trace EXCEPT ![p] = <<>>]
    /\ aux' = [aux EXCEPT ![p] = NoAux]
    /\ UNCHANGED <<mbox, prev, calls, maxActive, others, ex>>

\* another session of the same account flags a message \Deleted
OtherSession ==
    /\ others > 0
    /\ others' = others - 1
    /\ \E mb \in {"INBOX"} : \E i \in 1 .. Len(mbox[mb]) :
          /\ DeletedFlag \notin mbox[mb][i].flags
          /\ LET new == [mbox EXCEPT ![mb] = AddFlag(@, i, DeletedFlag)] IN
             /\ Change(0, new)
             /\ prev' = PrevAfter(new)
    /\ UNCHANGED <<conns, fr, trace, calls, maxActive, ex>>

Next ==
    \/ \E p \in Procs : Invoke(p)
    \/ \E p \in Procs : Connect(p)
    \/ \E p \in Procs : Login(p)
    \/ \E p \in Procs : Select(p)
    \/ \E p \in Procs : Fetch(p)
    \/ \E p \in Procs : Store(p)
    \/ \E p \in Procs : Expunge(p)
    \/ \E p \in Procs : Copy(p)
    \/ \E p \in Procs : List(p)
    \/ \E p \in Procs : Search(p)
    \/ \E p \in Procs : FetchLoop(p)
    \/ \E p \in Procs : Logout(p)
    \/ \E p \in Procs : Except(p)
    \/ \E p \in Procs : Ack(p)
    \/ OtherSession

Spec == Init /\ [][Next]_vars

SpecConc == InitConc /\ [][Next]_vars

\* ---------------------------------------------------------- properties
Done(p) == fr[p].pc = "done"

Returned(p) == Done(p) /\ fr[p].result.kind = "return"

\* every library call of the invocation was answered OK
NoFault(p) == \A i \in 1 .. Len(trace[p]) : trace[p][i].st = "OK"

\* no library call of the invocation raised
NoRaise(p) == \A i \in 1 .. Len(trace[p]) : trace[p][i].st \in {"OK", "NO"}

Raws(box) == {box[i].raw : i \in 1 .. Len(box)}

\* C1: when a tool returns normally, the connection it opened has been logged
\* out and is closed; calls that all return normally therefore leave no
\* connection open.
C1_ClosedOnReturn ==
    \A p \in Procs : Returned(p) => fr[p].mail # Unbound /\ conns[fr[p].mail].logouts >= 1 /\ ~conns[fr[p].mail].open

\* C2: when a step after a successful connect fails (login, select, a
\* transaction command or a parse step), logout is called on the connection
\* before the caller sees the failure, and the caller sees that failure.
C2_OriginalFailureAfterLogout ==
    \A p \in Procs :
        Done(p) /\ fr[p].e # NoExc /\ fr[p].e.at \notin {"connect", "logout"}
            => /\ conns[fr[p].mail].logouts >= 1
               /\ fr[p].result = Raised(fr[p].e)

\* C3: when the connect step fails the cleanup does nothing and the caller
\* sees the connect failure, not a second error raised by the cleanup.
C3_ConnectFailureNotMasked ==
    \A p \in Procs :
        Done(p) /\ fr[p].e.at = "connect" => fr[p].result = Raised(fr[p].e)

\* C4: every invocation opens exactly one connection and calls logout on it
\* exactly once, whatever its outcome.
C4_LogoutExactlyOnce ==
    \A p \in Procs :
        Done(p) => /\ fr[p].mail # Unbound
                   /\ Cardinality({i \in 1 .. Len(trace[p]) : trace[p][i].cmd = "CONNECT" /\ trace[p][i].st = "OK"}) = 1
                   /\ conns[fr[p].mail].logouts = 1

\* C5: in move_email, when the copy is answered NO or raises, no STORE and
\* no EXPUNGE follow: the source message keeps its flags and stays in INBOX.
C5_NoFlagAfterFailedCopy ==
    \A p \in Procs :
        \A i \in 1 .. Len(trace[p]) :
            trace[p][i].cmd = "COPY" /\ trace[p][i].st # "OK"
                => \A j \in (i + 1) .. Len(trace[p]) : trace[p][j].cmd \notin {"STORE", "EXPUNGE"}

\* C6: after move_email returned its confirmation, the message email_id
\* designated is gone from INBOX and a copy of it is in the target mailbox.
C6_MovedOnSuccess ==
    \A p \in Procs :
        Returned(p) /\ fr[p].name = "move_email" /\ aux[p].designated # 0 /\ ~aux[p].interfered
            => /\ aux[p].designated \notin Raws(mbox["INBOX"])
               /\ fr[p].mailbox \in Mailboxes
               /\ aux[p].designated \in Raws(mbox[fr[p].mailbox])

\* C7: a view_email that directly follows a successful delete_email of the
\* same id in the same mailbox, with no change of the store in between,
\* returns no message: it fails, with the not-found error when its commands go through.
C7_ViewAfterDeleteFails ==
    \A p \in Procs :
        Done(p) /\ fr[p].name = "view_email" /\ ~aux[p].interfered
        /\ aux[p].pred = [name |-> "delete_email", email_id |-> fr[p].email_id, mailbox |-> fr[p].mailbox, kind |-> "return"]
            => /\ fr[p].result.kind = "raise"
               /\ NoRaise(p) => fr[p].result = Raised(Exc("Exception", "not_found"))

C10_NoUnseenGivesEmptyMapping ==
    \A p \in Procs :
        Done(p) /\ fr[p].name = "check_unseen" /\ aux[p].unseen0 = 0 /\ NoFault(p)
            => fr[p].result = Return(EmptyMapping)

C10_EmptyMappingReturned ==
    \E p \in Procs :
        /\ Returned(p) /\ fr[p].name = "check_unseen" /\ aux[p].unseen0 = 0 /\ NoFault(p)
        /\ Len(mbox["INBOX"]) > 0

\* ---------------------------------------------------------------------------
\* C11: a view_email whose FETCH was answered with a status other than OK ends
\* with the not-found error ("Email <id> not found") and returns no message.
SeenFetchNo(p) == \E i \in 1 .. Len(trace[p]) : trace[p][i].cmd = "FETCH" /\ trace[p][i].st = "NO"

C11_NotFoundOnFailedFetch ==
    \A p \in Procs :
        (Done(p) /\ fr[p].name = "view_email" /\ SeenFetchNo(p))
            => fr[p].result = Raised(Exc("Exception", "not_found"))

\* ---------------------------------------------------------------------------
\* the parts of a message in document order: the message, then each subpart
\* followed by its own subparts (the messages called with nest two levels deep)
RECURSIVE DocFrom(_, _)
DocFrom(ps, i) == IF i > Len(ps) THEN <<>> ELSE <<ps[i]>> \o ps[i].parts \o DocFrom(ps, i + 1)

DocOrder(m) == <<m>> \o DocFrom(m.parts, 1)

\* the positions of the parts that carry non-empty text
Hits(ps) == {i \in 1 .. Len(ps) : ps[i].payload.k = "text" /\ ps[i].payload.s # ""}

FirstHit(ps) == CHOOSE i \in Hits(ps) : \A j \in Hits(ps) : i <= j

\* C12: for a multipart message with some part of non-empty text, extract_body
\* returns without raising the text and the content type of the first such
\* part in document order, whatever parts come before (empty, undecodable) or
\* after it (other non-empty parts), and a second call returns the same.
C12_FirstNonEmptyPartWins ==
    (ex.calls >= 1 /\ ex.m.multipart /\ Hits(DocOrder(ex.m)) # {})
        => LET ps == DocOrder(ex.m)
               k == FirstHit(ps)
           IN /\ ex.out = [ok |-> TRUE, body |-> ps[k].payload.s, type |-> ps[k].ctype]
              /\ ex.calls = 2 => ex.again = ex.out

\* an empty text part and an undecodable part come before the first hit, a
\* part with another non-empty text after it, and both calls were made
C12_LaterPartsIgnored ==
    /\ ex.calls = 2
    /\ ex.m.multipart
    /\ LET ps == DocOrder(ex.m) IN
       /\ Hits(ps) # {}
       /\ \E i, j \in 1 .. FirstHit(ps) : ps[i].payload.k = "bad" /\ ps[j].payload.k = "text"  /\ j < FirstHit(ps)
       /\ \E j \in Hits(ps) : j > FirstHit(ps) /\ ps[j].payload.s # ps[FirstHit(ps)].payload.s
       /\ ex.out.body = ps[FirstHit(ps)].payload.s

\* C17: for a multipart message none of whose parts carries non-empty text,
\* extract_body returns without raising the empty body and the content type of
\* the last part of the walk.
C17_EmptyBodyLastType ==
    (ex.calls >= 1 /\ ex.m.multipart /\ Hits(DocOrder(ex.m)) = {})
        => LET ps == DocOrder(ex.m)
           IN ex.out = [ok |-> TRUE, body |-> "", type |-> ps[Len(ps)].ctype]

\* the walk met an empty text part and an undecodable part, and ended on a
\* part of another content type than the message
C17_NothingFound ==
    /\ ex.calls >= 1
    /\ ex.m.multipart
    /\ LET ps == DocOrder(ex.m) IN
       /\ Hits(ps) = {}
       /\ \E i, j \in 2 .. Len(ps) : ps[i].payload.k = "bad" /\ ps[j].payload.k = "text"
       /\ ps[Len(ps)].ctype # ex.m.ctype
       /\ ex.out.body = ""

\* ---------------------------------------------------------------------------
\* the commands between select and logout
Transaction == {"FETCH", "STORE", "EXPUNGE", "COPY", "LIST", "SEARCH"}

\* entry i of the log of p is a call made on a connection
Issued(p, i) == trace[p][i].st # "unbound"

\* some call of cmd was made before position j, after position i
IssuedBetween(p, cmd, i, j) == \E k \in (i + 1) .. (j - 1) : trace[p][k].cmd = cmd /\ Issued(p, k)

\* connect, then authenticate, then select were the first calls, before position j
Prepared(p, j, withSelect) ==
    /\ j > 2
    /\ trace[p][1].cmd = "CONNECT"
    /\ trace[p][2].cmd = "LOGIN"
    /\ withSelect => j > 3 /\ trace[p][3].cmd = "SELECT"

FetchesAnswered(p) == {i \in 1 .. Len(trace[p]) : trace[p][i].cmd = "FETCH" /\ trace[p][i].st \in {"OK", "NO"}}

FetchesRefused(p) == {i \in 1 .. Len(trace[p]) : trace[p][i].cmd = "FETCH" /\ trace[p][i].st = "NO"}

\* C14: a check_unseen or search_emails that returns a mapping has an entry
\* for every id its search returned: every id was fetched once, so the mapping
\* has as many entries as fetches were made and none of them was answered NO.
C14_NoFetchFailureSwallowed ==
    \A p \in Procs :
        (Returned(p) /\ fr[p].name \in {"check_unseen", "search_emails"} /\ fr[p].status = "OK")
            => /\ FetchesRefused(p) = {}
               /\ Cardinality(DOMAIN fr[p].result_subjects) = Cardinality(FetchesAnswered(p))

\* ---------------------------------------------------------------------------
\* the fetch items that ask the server for the whole message, body included
FullMessageItems == {"(RFC822)", "(BODY[])", "(BODY.PEEK[])"}

\* C15: check_unseen never asks for the full message: none of its FETCH calls
\* carries an item that retrieves the body.
C15_HeadersOnlyFetch ==
    \A p \in Procs :
        fr[p].name = "check_unseen"
            => \A i \in 1 .. Len(trace[p]) : trace[p][i].cmd = "FETCH" => trace[p][i].arg \notin FullMessageItems

\* ---------------------------------------------------------------------------
\* the calls of cmd that p made
CallsOf(p, cmd) == {i \in 1 .. Len(trace[p]) : trace[p][i].cmd = cmd}

\* C16: an invocation connects at most once and authenticates at most once,
\* and after a step that did not succeed (answered NO, or raised) the only
\* command it still issues is the logout.
C16_NoCommandAfterFailure ==
    \A p \in Procs :
        /\ Cardinality(CallsOf(p, "CONNECT")) <= 1
        /\ Cardinality(CallsOf(p, "LOGIN")) <= 1
        /\ \A i, j \in 1 .. Len(trace[p]) :
              (i < j /\ trace[p][i].st # "OK" /\ Issued(p, j)) => trace[p][j].cmd = "LOGOUT"

\* ---------------------------------------------------------------------------
\* p holds a connection
Bound(p) == fr[p].mail # Unbound

\* the step is one of invocation p
StepOf(p) == fr'[p] # fr[p] \/ trace'[p] # trace[p]

\* no two invocations hold the same connection, and every call in the log of
\* an invocation was made on the connection it opened
OwnConnections ==
    /\ \A p, q \in Procs : (p # q /\ Bound(p) /\ Bound(q)) => fr[p].mail # fr[q].mail
    /\ \A p \in Procs : \A i \in 1 .. Len(trace[p]) :
          IF trace[p][i].st = "unbound" \/ (trace[p][i].cmd = "CONNECT" /\ trace[p][i].st = "raise")
          THEN trace[p][i].conn = Unbound
          ELSE trace[p][i].conn = fr[p].mail /\ Bound(p)

\* a step of one invocation changes the frame and the log of no other, and a
\* connection changes state, is closed or is dropped only in a step of the
\* invocation that holds it
OwnSteps ==
    /\ \A p, q \in Procs : (p # q /\ StepOf(p)) => ~StepOf(q)
    /\ \A c \in DOMAIN conns :
          (c \notin DOMAIN conns' \/ conns'[c] # conns[c])
              => \E p \in Procs : fr[p].mail = c /\ StepOf(p)

\* C18: under every interleaving of the steps of concurrent invocations, each
\* invocation opens a connection of its own, issues all its commands on it,
\* closes no connection but its own, and shares no frame with another.
C18_ConnectionPerInvocation == []OwnConnections /\ [][OwnSteps]_vars

\* one invocation has logged out and finished while the connection of the
\* other, opened before that, is still open with a mailbox selected
C18_LogoutLeavesOtherOpen ==
    \E p, q \in Procs :
        /\ p # q
        /\ Done(p) /\ Bound(p) /\ conns[fr[p].mail].logouts = 1 /\ ~conns[fr[p].mail].open
        /\ Bound(q) /\ conns[fr[q].mail].open /\ conns[fr[q].mail].state = "SELECTED"
        /\ fr[q].pc \notin {"done", "except", "logout"}

\* ---------------------------------------------------------------------------
ReadTools == {"view_email", "check_unseen", "search_emails", "list_mailboxes"}

\* the number of messages of the INBOX that a search for UNSEEN returns
UnseenCount == Cardinality({i \in 1 .. Len(mbox["INBOX"]) : SeenFlag \notin mbox["INBOX"][i].flags})

\* C19: no step of a read operation changes the store (the messages of every
\* mailbox and their flags, \Seen included), so a check_unseen that nobody
\* interfered with leaves as many unseen messages as it found, and the next
\* check_unseen returns the same mapping.
C19_ReadsLeaveStoreUnchanged ==
    /\ [][\A p \in Procs : (fr[p].name \in ReadTools /\ StepOf(p)) => mbox' = mbox]_vars
    /\ [](\A p \in Procs :
            (Done(p) /\ fr[p].name = "check_unseen" /\ ~aux[p].interfered) => UnseenCount = aux[p].unseen0)

====
